---- MODULE Spec2Model ----
(***************************************************************************)
(* HAL-60 sampler (src/app.js): the sequencing engine as a state machine.  *)
(*                                                                         *)
(* Time.  audioCtx.currentTime and every scheduled time are held in whole  *)
(* ticks of 1/21000 s, the coarsest unit in which the 32nd-note duration   *)
(* 60/bpm/8 and the swing delays (0.4 and 0.8 of it) are exact for bpm 60, *)
(* 70 and 90, and in which 5 ms, 6 ms, 25 ms and 0.1 s are whole numbers.  *)
(* Floating-point rounding of the JavaScript doubles is not modelled.      *)
(*                                                                         *)
(* Handlers.  The program is single-threaded: every event handler and      *)
(* timer callback runs to completion.  Each is an operator from the state  *)
(* record before the call to the state record after it, and one action     *)
(* commits that record.  An uncaught exception is the field "thrown": the  *)
(* statements after the throwing call are skipped, what was assigned       *)
(* before it stays assigned.                                               *)
(*                                                                         *)
(* Left out.  The DOM, the visual loop and the timers that only update the *)
(* display (flashMetronome, highlightPad, updateSeqPlayhead) change no     *)
(* variable of the engine.  Audio nodes are followed as far as the engine  *)
(* can tell them apart: a slice voice by its start, length and stop time,  *)
(* a metronome tick or drum hit by the time it is scheduled at.            *)
(*                                                                         *)
(* Specifications.  Spec: the transport (count-in, scheduler, Record,      *)
(* Play, Space, Stop, bpm) over 3.5 s of audio time.  HandoffSpec: the     *)
(* same with one input fewer.  VoiceSpec: pads, note repeat and region     *)
(* edits around a running scheduler.  ClockSpec: the step clock through    *)
(* two passes of the loop, with settings changed on the way.               *)
(* WakeSpec: the transport on a 25 ms clock, every timer callback less     *)
(* than 0.1 s after the wake that armed it.  QuantizeSpec: recordEvent     *)
(* over its range of elapsed loop times.  RecordSpec: a recording loop     *)
(* around its wrap and its hand-off, with pads, Shift, Record, Stop and    *)
(* Clear.  RepeatSpec: Note Repeat over the first steps of a recording     *)
(* loop, with pads, keys, the mode switch and region edits.  EntrySpec:     *)
(* triggerPad, playSlice and startPlayback called with every kind of       *)
(* argument in a short session.  BpmSpec: the bpm field and its buttons.   *)
(* RegionSpec: the slices with their handles dragged.  DrumSpec: the drum  *)
(* grid beside the pads of a recording loop.  DrumLoopSpec: a drum pattern *)
(* through the four bars of the loop.  CountInLiveSpec: the transport with *)
(* the count-in's timer served (weak fairness).  BareSpec: the pads, Shift  *)
(* and the transport with no sample loaded.                                *)
(***************************************************************************)
EXTENDS Integers, Sequences, FiniteSets, TLC

\* ---------------------------------------------------------------- constants

NUM_PADS == 16
BARS == 4
BEATS_PER_BAR == 4
THIRTYSECONDS_PER_BEAT == 8
SIXTEENTHS_PER_BEAT == 4
STEPS_PER_SIXTEENTH == 2
TOTAL_STEPS == BARS * BEATS_PER_BAR * THIRTYSECONDS_PER_BEAT
DRUM_TRACKS == 4
SEQ_STEPS == 16
SWING_VALUES == <<50, 60, 70>>

\* null (an empty slot, no timer, no source) and an omitted argument
Null == -1
Undefined == -2

\* One second of audio time, in ticks.
Second == 21 * 1000
\* lookahead = 25.0 ms, scheduleAheadTime = 0.1 s
Lookahead == (25 * Second) \div 1000
ScheduleAheadTime == Second \div 10
\* stopCurrent: gain ramp to 0 at t + 0.005, source.stop at t + 0.006
FadeRamp == (5 * Second) \div 1000
FadeStop == (6 * Second) \div 1000
\* handleRegionUpdate: neighbours are moved when they differ by more than 0.001
RegionEps == Second \div 1000

\* ------------------------------------------------------------------- bounds

\* The bpm values the inputs are drawn from (the clamp's ends and the default).
Bpms == {60, 70, 90}
\* Pads the pad inputs are drawn from.
PadInputs == {0, 1}
\* Length of one auto-slice of the loaded sample, in ticks (0.4 s).
SliceLen == 8400
\* Audio time advances by four scheduler intervals (0.1 s) at a time.
Quantum == 4 * Lookahead
\* A timer callback runs at most this many quanta after it is due.
MaxLateQuanta == 1
\* Horizon of the transport specification, in quanta.
MaxQuanta == 35
\* User inputs (clicks, key presses, loads) in one behaviour.
MaxInputs == 3
\* User inputs in one behaviour of the handoff specification.
MaxHandoffInputs == 2
\* Horizon and user inputs of the voice specification.
MaxVoiceQuanta == 3
MaxVoiceInputs == 4
\* Slices whose start handle the region inputs drag.
ResizedSlices == {2}
\* Pending timers and live voices the model follows.
MaxTimers == 3
MaxVoices == 3
\* The clock specification: settings change only while the loop is within
\* its first ChangeWindow steps, at most MaxClockInputs times, and the loop is
\* followed through two full passes.
ChangeWindow == 4
MaxClockInputs == 1
MaxAdvances == 2 * TOTAL_STEPS + ChangeWindow
\* the wake specification: fine quanta of audio time, inputs, the input grid
MaxWakeQuanta == 160
MaxWakeInputs == 1
InputGrid == 32 * Lookahead
\* the quantize specification: the quantum of elapsed time (1/120 s), the
\* quanta followed past the end of the loop, the pads struck
ElapseQuantum == Second \div 120
MaxOverrun == 24
MaxQuantizeInputs == 1
\* the record specification: the steps followed on either side of the wrap,
\* the inputs, the quantum of audio time between two wakes
RecordWindow == 2
MaxRecordInputs == 2
RecordQuantum == 2 * Lookahead
\* the repeat specification: the steps followed, the inputs
MaxRepeatAdvances == 5
MaxRepeatInputs == 3

\* The entry specification: quanta of audio time, inputs, the indices and the
\* offsets of the times that triggerPad and playSlice are called with.
MaxEntryQuanta == 2
MaxEntryInputs == 3
PadArgs == {-1, 0, NUM_PADS}
AtTimes == {Undefined, Lookahead}

\* The bpm specification: the numbers typed into the bpm field, in tenths, and
\* the inputs of a behaviour.
BpmTenths == {-10, 0, 3, 595, 604, 655, 725, 800, 899, 905, 2000}
MaxBpmInputs == 4

\* The region specification: the slices whose handles are dragged, the places
\* a handle is dropped at (one of them less than RegionEps from where a
\* handle was), and the inputs of a behaviour.
DraggedSlices == {1, 2}
HandlePositions == {0, SliceLen \div 2, SliceLen - 10, 4 * SliceLen}
MaxRegionInputs == 3

\* The drum specification: quanta of audio time, inputs, and the steps of the
\* drum grid that are clicked, as <<track, column>>.
MaxDrumQuanta == 2
MaxDrumInputs == 2
DrumSteps == {<<0, 0>>, <<1, 0>>, <<1, 1>>}

\* The drum loop specification: the steps of the drum grid that may be on, and
\* the clicks on the grid in a behaviour.
LoopSteps == {<<0, 0>>, <<1, 1>>, <<3, 15>>}
MaxLoopInputs == 1

\* The specification without a sample: inputs, and quanta of audio time.
MaxBareInputs == 4
MaxBareQuanta == 2

\* The count-in liveness specification: inputs, and steps of the loop followed.
MaxLiveInputs == 3
MaxLiveAdvances == 6

Min(a, b) == IF a < b THEN a ELSE b
Max(a, b) == IF a > b THEN a ELSE b

\* One statement after another: the state the first leaves is computed once
\* and handed to the rest.
Then(s, Rest(_)) == CHOOSE r \in {Rest(x) : x \in {s}} : TRUE

\* -------------------------------------------------------------------- state

VARIABLES
  audioCtx,          \* the AudioContext exists
  audioNow,          \* audioCtx.currentTime
  decodedBuffer,     \* a decoded sample is loaded
  regions,           \* slice boundaries, [0..15 -> [start, end]] once sliced
  voices,            \* buffer sources started and not yet ended
  currentSource,     \* id of the tracked voice, or Null
  currentGain,       \* id of the voice whose gain node is tracked, or Null
  activePadIndex,
  bpm,
  isPlaying,
  isRecording,
  quantizeRes,
  swingPercent,
  metronomeEnabled,
  isCountingIn,
  countInStep,
  countInNextTime,
  countInTimerID,
  shiftHeld,
  mousePressedPads,  \* insertion-ordered, as a JavaScript Set iterates
  keyPressedPads,
  sequence,
  nextNoteTime,
  currentStep,
  timerID,
  loopStartTime,
  seqMode,
  drumPattern,       \* the <<track, column>> pairs that are on
  timers,            \* pending setTimeout callbacks [id, fn, due]
  \* observation of the last handler, of no effect on the program
  lastOp,            \* the handler that ran last
  log,               \* what it scheduled: [op, x, time] in call order
  thrown,            \* it ended with an uncaught exception
  countInTicks,      \* the metronome ticks of the current or last count-in
  stopped,           \* stopPlayback ran and no start was requested since
  inputs,            \* how many user inputs have been handled
  advances,          \* nextNote calls since playback last started at step 0
  bpmSetAt,          \* the value of advances when bpm last changed
  swingSetAt         \* the value of advances when swingPercent last changed

vars == <<audioCtx, audioNow, decodedBuffer, regions, voices, currentSource,
          currentGain, activePadIndex, bpm, isPlaying, isRecording, quantizeRes,
          swingPercent, metronomeEnabled, isCountingIn, countInStep,
          countInNextTime, countInTimerID, shiftHeld, mousePressedPads,
          keyPressedPads, sequence, nextNoteTime, currentStep, timerID,
          loopStartTime, seqMode, drumPattern, timers, lastOp, log, thrown,
          countInTicks, stopped, inputs, advances, bpmSetAt, swingSetAt>>

\* The state as one record, as a handler sees it when it starts.
Cur ==
  [audioCtx |-> audioCtx, audioNow |-> audioNow, decodedBuffer |-> decodedBuffer,
   regions |-> regions, voices |-> voices, currentSource |-> currentSource,
   currentGain |-> currentGain, activePadIndex |-> activePadIndex, bpm |-> bpm,
   isPlaying |-> isPlaying, isRecording |-> isRecording,
   quantizeRes |-> quantizeRes, swingPercent |-> swingPercent,
   metronomeEnabled |-> metronomeEnabled, isCountingIn |-> isCountingIn,
   countInStep |-> countInStep, countInNextTime |-> countInNextTime,
   countInTimerID |-> countInTimerID, shiftHeld |-> shiftHeld,
   mousePressedPads |-> mousePressedPads, keyPressedPads |-> keyPressedPads,
   sequence |-> sequence, nextNoteTime |-> nextNoteTime,
   currentStep |-> currentStep, timerID |-> timerID,
   loopStartTime |-> loopStartTime, seqMode |-> seqMode,
   drumPattern |-> drumPattern, timers |-> timers,
   log |-> <<>>, thrown |-> FALSE, countInTicks |-> countInTicks,
   stopped |-> stopped, inputs |-> inputs, advances |-> advances,
   bpmSetAt |-> bpmSetAt, swingSetAt |-> swingSetAt]

Commit(op, s) ==
  \E r \in {s} :
  /\ Cardinality(r.timers) <= MaxTimers
  /\ Cardinality(r.voices) <= MaxVoices
  /\ audioCtx' = r.audioCtx
  /\ audioNow' = r.audioNow
  /\ decodedBuffer' = r.decodedBuffer
  /\ regions' = r.regions
  /\ voices' = r.voices
  /\ currentSource' = r.currentSource
  /\ currentGain' = r.currentGain
  /\ activePadIndex' = r.activePadIndex
  /\ bpm' = r.bpm
  /\ isPlaying' = r.isPlaying
  /\ isRecording' = r.isRecording
  /\ quantizeRes' = r.quantizeRes
  /\ swingPercent' = r.swingPercent
  /\ metronomeEnabled' = r.metronomeEnabled
  /\ isCountingIn' = r.isCountingIn
  /\ countInStep' = r.countInStep
  /\ countInNextTime' = r.countInNextTime
  /\ countInTimerID' = r.countInTimerID
  /\ shiftHeld' = r.shiftHeld
  /\ mousePressedPads' = r.mousePressedPads
  /\ keyPressedPads' = r.keyPressedPads
  /\ sequence' = r.sequence
  /\ nextNoteTime' = r.nextNoteTime
  /\ currentStep' = r.currentStep
  /\ timerID' = r.timerID
  /\ loopStartTime' = r.loopStartTime
  /\ seqMode' = r.seqMode
  /\ drumPattern' = r.drumPattern
  /\ timers' = r.timers
  /\ lastOp' = op
  /\ log' = r.log
  /\ thrown' = r.thrown
  /\ countInTicks' = r.countInTicks
  /\ stopped' = r.stopped
  /\ inputs' = r.inputs
  /\ advances' = r.advances
  /\ bpmSetAt' = r.bpmSetAt
  /\ swingSetAt' = r.swingSetAt

\* The state the script leaves when it has run: the declarations of the state.
Constructed ==
  [audioCtx |-> FALSE,
   audioNow |-> 0,
   decodedBuffer |-> FALSE,
   regions |-> <<>>,
   voices |-> {},
   currentSource |-> Null,
   currentGain |-> Null,
   activePadIndex |-> -1,
   bpm |-> 70,
   isPlaying |-> FALSE,
   isRecording |-> FALSE,
   quantizeRes |-> 32,
   swingPercent |-> 50,
   metronomeEnabled |-> FALSE,
   isCountingIn |-> FALSE,
   countInStep |-> 0,
   countInNextTime |-> 0,
   countInTimerID |-> Null,
   shiftHeld |-> FALSE,
   mousePressedPads |-> <<>>,
   keyPressedPads |-> <<>>,
   sequence |-> [i \in 0..(TOTAL_STEPS - 1) |-> Null],
   nextNoteTime |-> 0,
   currentStep |-> 0,
   timerID |-> Null,
   loopStartTime |-> 0,
   seqMode |-> FALSE,
   drumPattern |-> {},
   timers |-> {},
   log |-> <<>>,
   thrown |-> FALSE,
   countInTicks |-> <<>>,
   stopped |-> FALSE,
   inputs |-> 0,
   advances |-> 0,
   bpmSetAt |-> 0,
   swingSetAt |-> 0]

\* The behaviour starts in state s, reached by op.
Starts(op, s) ==
  \E r \in {s} :
  /\ audioCtx = r.audioCtx
  /\ audioNow = r.audioNow
  /\ decodedBuffer = r.decodedBuffer
  /\ regions = r.regions
  /\ voices = r.voices
  /\ currentSource = r.currentSource
  /\ currentGain = r.currentGain
  /\ activePadIndex = r.activePadIndex
  /\ bpm = r.bpm
  /\ isPlaying = r.isPlaying
  /\ isRecording = r.isRecording
  /\ quantizeRes = r.quantizeRes
  /\ swingPercent = r.swingPercent
  /\ metronomeEnabled = r.metronomeEnabled
  /\ isCountingIn = r.isCountingIn
  /\ countInStep = r.countInStep
  /\ countInNextTime = r.countInNextTime
  /\ countInTimerID = r.countInTimerID
  /\ shiftHeld = r.shiftHeld
  /\ mousePressedPads = r.mousePressedPads
  /\ keyPressedPads = r.keyPressedPads
  /\ sequence = r.sequence
  /\ nextNoteTime = r.nextNoteTime
  /\ currentStep = r.currentStep
  /\ timerID = r.timerID
  /\ loopStartTime = r.loopStartTime
  /\ seqMode = r.seqMode
  /\ drumPattern = r.drumPattern
  /\ timers = r.timers
  /\ log = r.log
  /\ thrown = r.thrown
  /\ countInTicks = r.countInTicks
  /\ stopped = r.stopped
  /\ inputs = r.inputs
  /\ advances = r.advances
  /\ bpmSetAt = r.bpmSetAt
  /\ swingSetAt = r.swingSetAt
  /\ lastOp = op

Init == Starts("init", Constructed)


\* -------------------------------------------------------------- step clock

\* 60.0 / bpm, secondsPerBeat / 8 and secondsPerBeat / 4
SecondsPerBeat(b) == (60 * Second) \div b
ThirtySecondDur(b) == SecondsPerBeat(b) \div THIRTYSECONDS_PER_BEAT
SixteenthDur(b) == SecondsPerBeat(b) \div SIXTEENTHS_PER_BEAT
\* A swing delay of three times the offset instead of two: at swing 70 it is
\* longer than a 32nd note.
SwingDelay_Wide(b, sw) == ((sw - 50) * 3 * SixteenthDur(b)) \div 100
\* A swing delay measured from 0 instead of from the centre 50.
SwingDelay_FromZero(b, sw) == (sw * 2 * SixteenthDur(b)) \div 100
\* ((swingPercent / 100) - 0.5) * 2.0 * sixteenthDur
SwingDelay(b, sw) == ((sw - 50) * 2 * SixteenthDur(b)) \div 100

\* getLoopDuration
GetLoopDuration(b) == SecondsPerBeat(b) * BEATS_PER_BAR * BARS

\* The interval nextNote adds to nextNoteTime when it leaves step `step`.
NoteInterval(step, b, sw) ==
  LET sub == step % STEPS_PER_SIXTEENTH
      currentSixteenth == step \div STEPS_PER_SIXTEENTH
      nextSixteenth == currentSixteenth + 1
      leavingSwung == currentSixteenth % 2 = 1
      enteringSwung == nextSixteenth % 2 = 1
  IN IF sub = 0
       THEN ThirtySecondDur(b)
       ELSE ThirtySecondDur(b)
              - (IF leavingSwung THEN SwingDelay(b, sw) ELSE 0)
              + (IF enteringSwung THEN SwingDelay(b, sw) ELSE 0)

\* currentStep++ without the wrap
StepAfter_NoWrap(step) == step + 1
\* currentStep++ and the wrap at TOTAL_STEPS
StepAfter(step) == IF step + 1 >= TOTAL_STEPS THEN 0 ELSE step + 1

\* nextNote with loopStartTime re-pinned to the audio clock at the wrap
NextNote_PinAtNow(s) ==
  LET t == s.nextNoteTime + NoteInterval(s.currentStep, s.bpm, s.swingPercent)
      wraps == s.currentStep + 1 >= TOTAL_STEPS
  IN [s EXCEPT !.nextNoteTime = t,
               !.currentStep = StepAfter(s.currentStep),
               !.loopStartTime = IF wraps THEN s.audioNow ELSE @,
               !.advances = @ + 1]
\* nextNote with the interval doubled on the 1/16 grid
NextNote_CoarseGrid(s) ==
  LET t == s.nextNoteTime
             + (IF s.quantizeRes = 16 THEN 2 ELSE 1)
                 * NoteInterval(s.currentStep, s.bpm, s.swingPercent)
      wraps == s.currentStep + 1 >= TOTAL_STEPS
  IN [s EXCEPT !.nextNoteTime = t,
               !.currentStep = StepAfter(s.currentStep),
               !.loopStartTime = IF wraps THEN t ELSE @,
               !.advances = @ + 1]
NextNote(s) ==
  LET t == s.nextNoteTime + NoteInterval(s.currentStep, s.bpm, s.swingPercent)
      wraps == s.currentStep + 1 >= TOTAL_STEPS
  IN [s EXCEPT !.nextNoteTime = t,
               !.currentStep = StepAfter(s.currentStep),
               !.loopStartTime = IF wraps THEN t ELSE @,
               !.advances = @ + 1]

\* ------------------------------------------------------------ observation

Ev(op, x, time) == [op |-> op, x |-> x, time |-> time]
Logged(s, op, x, time) == [s EXCEPT !.log = Append(@, Ev(op, x, time))]

\* ------------------------------------------------------------------ timers

TimerIds(s) == {t.id : t \in s.timers}
\* setTimeout never returns an id that is still held anywhere.
FreshTimer(s) ==
  CHOOSE i \in 1..(MaxTimers + 4) :
    /\ i \notin TimerIds(s) \cup {s.timerID, s.countInTimerID}
    /\ \A j \in 1..(i - 1) : j \in TimerIds(s) \cup {s.timerID, s.countInTimerID}
SetTimeout(s, fn, id) ==
  [s EXCEPT !.timers = @ \cup {[id |-> id, fn |-> fn, due |-> s.audioNow + Lookahead]}]
ClearTimeout(s, id) == [s EXCEPT !.timers = {t \in @ : t.id # id}]

\* ------------------------------------------------------------------ voices

EnsureAudioContext(s) == [s EXCEPT !.audioCtx = TRUE]

\* atTime || audioCtx.currentTime: an omitted time and a time of 0 are both falsy
TimeOrNow(s, atTime) ==
  IF atTime = Undefined \/ atTime = 0 THEN s.audioNow ELSE atTime

VoiceIds(s) == {v.id : v \in s.voices}
FreshVoice(s) ==
  CHOOSE i \in 1..(Cardinality(VoiceIds(s)) + 1) :
    /\ i \notin VoiceIds(s)
    /\ \A j \in 1..(i - 1) : j \in VoiceIds(s)

\* When a voice falls silent: its region played out, or its scheduled stop.
EndTime(v) ==
  IF v.stopAt = Null THEN v.start + v.dur ELSE Min(v.start + v.dur, v.stopAt)

StopCurrent(s, atTime) ==
  LET t == TimeOrNow(s, atTime)
      faded ==
        IF s.currentSource # Null /\ s.currentGain # Null /\ s.audioCtx
          THEN [s EXCEPT !.voices =
                  {IF v.id = s.currentSource
                     THEN [v EXCEPT !.stopAt = t + FadeStop] ELSE v : v \in @}]
          ELSE s
  IN [faded EXCEPT !.currentSource = Null,
                   !.currentGain = Null,
                   !.activePadIndex = -1]

PlaySlice(s, index, atTime) ==
  IF ~s.decodedBuffer \/ index < 0 \/ index >= NUM_PADS
    THEN s
    ELSE
      LET a == EnsureAudioContext(s)
          slice == a.regions[index]
          t == TimeOrNow(a, atTime)
          muted == StopCurrent(a, t)
          duration == slice.end - slice.start
          id == FreshVoice(muted)
      IN IF index \notin DOMAIN a.regions
           THEN a
         ELSE IF duration < 0
           \* source.start(t, offset, duration) raises RangeError
           THEN [Logged(muted, "playSlice", index, t) EXCEPT !.thrown = TRUE]
           ELSE [Logged(muted, "playSlice", index, t) EXCEPT
                   !.voices = @ \cup {[id |-> id, pad |-> index, start |-> t,
                                       dur |-> duration, stopAt |-> Null]},
                   !.currentSource = id,
                   !.currentGain = id,
                   !.activePadIndex = index]

\* An onended that clears the bookkeeping whichever voice has ended.
OnEnded_AlwaysClears(s, id) ==
  [s EXCEPT !.voices = {v \in @ : v.id # id},
            !.currentSource = Null,
            !.currentGain = Null,
            !.activePadIndex = -1]

\* source.onended of voice id
OnEnded(s, id) ==
  LET gone == [s EXCEPT !.voices = {v \in @ : v.id # id}]
  IN IF s.currentSource = id
       THEN [gone EXCEPT !.currentSource = Null,
                         !.currentGain = Null,
                         !.activePadIndex = -1]
       ELSE gone

PlayMetronomeTick(s, time, isDownbeat) ==
  Logged(EnsureAudioContext(s), "metronome", IF isDownbeat THEN 1 ELSE 0, time)

\* A drum hit that joins the mute group of the slices.
PlayDrumSound_InMuteGroup(s, trackIndex, time) ==
  Logged(StopCurrent(EnsureAudioContext(s), time), "drum", trackIndex, time)

PlayDrumSound(s, trackIndex, time) ==
  Logged(EnsureAudioContext(s), "drum", trackIndex, time)


\* --------------------------------------------------------------- recording

\* Math.round(a / b) for b > 0: the nearest integer, a half rounded up
RoundDiv(a, b) == (2 * a + b) \div (2 * b)
\* JavaScript's a % n: the sign of the dividend
JsRem(a, n) == IF a >= 0 THEN a % n ELSE -((-a) % n)

\* The step computed without the two clamping statements.
QuantizedStep_NoClamp(elapsed, b, res) ==
  LET thirtySecondDur == ThirtySecondDur(b)
  IN IF res = 16
       THEN JsRem(RoundDiv(elapsed, 2 * thirtySecondDur) * 2, TOTAL_STEPS)
       ELSE JsRem(RoundDiv(elapsed, thirtySecondDur), TOTAL_STEPS)

\* The step recordEvent writes for an elapsed loop time.
QuantizedStep(elapsed, b, res) ==
  LET thirtySecondDur == ThirtySecondDur(b)
      step == IF res = 16
                THEN JsRem(RoundDiv(elapsed, 2 * thirtySecondDur) * 2, TOTAL_STEPS)
                ELSE JsRem(RoundDiv(elapsed, thirtySecondDur), TOTAL_STEPS)
  IN IF step < 0 THEN 0
     ELSE IF step >= TOTAL_STEPS THEN TOTAL_STEPS - 1
     ELSE step

\* A recordEvent that stores the step where the slice index belongs.
RecordEvent_StoresStep(s, sliceId) ==
  IF ~s.audioCtx
    THEN s
    ELSE
      LET step == QuantizedStep(s.audioNow - s.loopStartTime, s.bpm, s.quantizeRes)
      IN Logged([s EXCEPT !.sequence[step] = step], "record", step, s.audioNow)

\* A recordEvent that also marks the slot after the one it writes.
RecordEvent_TwoSlots(s, sliceId) ==
  IF ~s.audioCtx
    THEN s
    ELSE
      LET step == QuantizedStep(s.audioNow - s.loopStartTime, s.bpm, s.quantizeRes)
      IN Logged([s EXCEPT !.sequence[step] = sliceId,
                          !.sequence[(step + 1) % TOTAL_STEPS] = sliceId],
                "record", step, s.audioNow)

RecordEvent(s, sliceId) ==
  IF ~s.audioCtx
    THEN s
    ELSE
      LET step == QuantizedStep(s.audioNow - s.loopStartTime, s.bpm, s.quantizeRes)
      IN Logged([s EXCEPT !.sequence[step] = sliceId], "record", step, s.audioNow)

\* A clear that leaves the first slot as it is.
ClearSequence_FromOne(s) ==
  [s EXCEPT !.sequence =
     [i \in 0..(TOTAL_STEPS - 1) |-> IF i = 0 THEN @[i] ELSE Null]]

ClearSequence(s) ==
  [s EXCEPT !.sequence = [i \in 0..(TOTAL_STEPS - 1) |-> Null]]

\* A trigger that records whenever the loop plays.
TriggerPad_RecordsWhilePlaying(s, index) ==
  IF ~s.decodedBuffer \/ index < 0 \/ index >= NUM_PADS
    THEN s
    ELSE
      LET played == PlaySlice(s, index, Undefined)
      IN IF played.thrown THEN played
         ELSE IF played.isPlaying
           THEN RecordEvent(played, index)
           ELSE played

\* A trigger that checks the index only, not whether a sample is loaded.
TriggerPad_WithoutSample(s, index) ==
  IF index < 0 \/ index >= NUM_PADS
    THEN s
    ELSE
      LET played == PlaySlice(s, index, Undefined)
      IN IF played.thrown THEN played
         ELSE IF played.isRecording /\ played.isPlaying
           THEN RecordEvent(played, index)
           ELSE played

TriggerPad(s, index) ==
  IF ~s.decodedBuffer \/ index < 0 \/ index >= NUM_PADS
    THEN s
    ELSE
      LET played == PlaySlice(s, index, Undefined)
      IN IF played.thrown THEN played
         ELSE IF played.isRecording /\ played.isPlaying
           THEN RecordEvent(played, index)
           ELSE played

\* ------------------------------------------------------------- note repeat

IsNoteRepeatActive(s) == IF s.seqMode THEN FALSE ELSE s.shiftHeld

InSeq(q, x) == \E i \in 1..Len(q) : q[i] = x
SetAdd(q, x) == IF InSeq(q, x) THEN q ELSE Append(q, x)
SetDelete(q, x) == SelectSeq(q, LAMBDA y : y # x)

RECURSIVE Union(_, _)
Union(q, r) == IF r = <<>> THEN q ELSE Union(SetAdd(q, Head(r)), Tail(r))

GetPressedPads(s) == Union(s.mousePressedPads, s.keyPressedPads)

\* ---------------------------------------------------------------- dispatch

\* for (tr = 0; tr < DRUM_TRACKS; tr++) if (drumPattern[tr][col]) playDrumSound
RECURSIVE DrumHits(_, _, _, _)
DrumHits(s, tr, col, time) ==
  IF tr >= DRUM_TRACKS THEN s
  ELSE DrumHits(IF <<tr, col>> \in s.drumPattern
                  THEN PlayDrumSound(s, tr, time) ELSE s,
                tr + 1, col, time)

\* for (const padIdx of pressed): retrigger, and record while recording
RECURSIVE RepeatPads(_, _, _, _)
RepeatPads(s, pressed, step, time) ==
  IF pressed = <<>> \/ s.thrown THEN s
  ELSE
    LET padIdx == Head(pressed)
        played == PlaySlice(s, padIdx, time)
        sidx == step % TOTAL_STEPS
        written ==
          IF played.isRecording /\ sidx >= 0 /\ sidx < TOTAL_STEPS
            THEN [played EXCEPT !.sequence[sidx] = padIdx]
            ELSE played
    IN IF played.thrown THEN played
       ELSE RepeatPads(written, Tail(pressed), step, time)

\* A dispatch that reads the drum grid at the step of the loop, not of the bar.
ScheduleNote_OneBarOfDrums(s, step, time) ==
  LET stepsPerBar == THIRTYSECONDS_PER_BEAT * BEATS_PER_BAR
      called == Logged(s, "scheduleNote", step, time)
      ticked ==
        IF step % THIRTYSECONDS_PER_BEAT = 0 /\ called.metronomeEnabled
          THEN PlayMetronomeTick(called, time, step % stepsPerBar = 0)
          ELSE called
      drummed ==
        IF step % STEPS_PER_SIXTEENTH = 0
          THEN DrumHits(ticked, 0, step \div STEPS_PER_SIXTEENTH, time)
          ELSE ticked
      sliced ==
        IF drummed.sequence[step] # Null
          THEN PlaySlice(drummed, drummed.sequence[step], time)
          ELSE drummed
  IN IF sliced.thrown THEN sliced
     ELSE IF IsNoteRepeatActive(sliced)
       THEN RepeatPads(sliced, GetPressedPads(sliced), step, time)
       ELSE sliced

ScheduleNote(s, step, time) ==
  LET stepsPerBar == THIRTYSECONDS_PER_BEAT * BEATS_PER_BAR
      barStep == step % stepsPerBar
      called == Logged(s, "scheduleNote", step, time)
      ticked ==
        IF step % THIRTYSECONDS_PER_BEAT = 0 /\ called.metronomeEnabled
          THEN PlayMetronomeTick(called, time, step % stepsPerBar = 0)
          ELSE called
      drummed ==
        IF barStep % STEPS_PER_SIXTEENTH = 0
          THEN DrumHits(ticked, 0, barStep \div STEPS_PER_SIXTEENTH, time)
          ELSE ticked
      sliced ==
        IF drummed.sequence[step] # Null
          THEN PlaySlice(drummed, drummed.sequence[step], time)
          ELSE drummed
  IN IF sliced.thrown THEN sliced
     ELSE IF IsNoteRepeatActive(sliced)
       THEN RepeatPads(sliced, GetPressedPads(sliced), step, time)
       ELSE sliced

\* A loop that looks no further ahead than the audio clock.
RECURSIVE SchedulerLoop_NoLookAhead(_)
SchedulerLoop_NoLookAhead(s) ==
  IF s.thrown \/ ~(s.nextNoteTime < s.audioNow)
    THEN s
    ELSE Then(ScheduleNote(s, s.currentStep, s.nextNoteTime),
              LAMBDA noted :
                IF noted.thrown THEN noted
                ELSE Then(NextNote(noted), SchedulerLoop_NoLookAhead))

\* while (nextNoteTime < audioCtx.currentTime + scheduleAheadTime)
RECURSIVE SchedulerLoop(_)
SchedulerLoop(s) ==
  IF s.thrown \/ ~(s.nextNoteTime < s.audioNow + ScheduleAheadTime)
    THEN s
    ELSE Then(ScheduleNote(s, s.currentStep, s.nextNoteTime),
              LAMBDA noted :
                IF noted.thrown THEN noted
                ELSE Then(NextNote(noted), SchedulerLoop))

Scheduler(s) ==
  Then(SchedulerLoop(s),
       LAMBDA drained :
         LET id == FreshTimer(drained)
         IN IF drained.thrown THEN drained
            ELSE [SetTimeout(drained, "scheduler", id) EXCEPT !.timerID = id])


\* ---------------------------------------------------------------- count-in

\* A handoff that starts the loop at the time of the last count-in tick.
Handoff_AtLastTick(s) ==
  LET started == [s EXCEPT !.isCountingIn = FALSE,
                           !.isPlaying = TRUE,
                           !.isRecording = TRUE,
                           !.currentStep = 0,
                           !.nextNoteTime = s.countInNextTime - SecondsPerBeat(s.bpm),
                           !.loopStartTime = s.countInNextTime - SecondsPerBeat(s.bpm),
                           !.advances = 0,
                           !.bpmSetAt = 0,
                           !.swingSetAt = 0]
      cleared == IF started.countInTimerID # Null
                   THEN [ClearTimeout(started, started.countInTimerID)
                           EXCEPT !.countInTimerID = Null]
                   ELSE started
  IN Then(Logged(cleared, "handoff", cleared.currentStep, cleared.nextNoteTime),
          Scheduler)
\* The branch of countInScheduler taken once countInStep >= 4: the handoff.
Handoff(s) ==
  LET started == [s EXCEPT !.isCountingIn = FALSE,
                           !.isPlaying = TRUE,
                           !.isRecording = TRUE,
                           !.currentStep = 0,
                           !.nextNoteTime = s.countInNextTime,
                           !.loopStartTime = s.countInNextTime,
                           !.advances = 0,
                           !.bpmSetAt = 0,
                           !.swingSetAt = 0]
      cleared == IF started.countInTimerID # Null
                   THEN [ClearTimeout(started, started.countInTimerID)
                           EXCEPT !.countInTimerID = Null]
                   ELSE started
  IN Then(Logged(cleared, "handoff", cleared.currentStep, cleared.nextNoteTime),
          Scheduler)

\* One pass of the loop body that schedules a tick and advances a beat.
CountInTick(s) ==
  LET isDownbeat == s.countInStep = 0
      ticked == PlayMetronomeTick(s, s.countInNextTime, isDownbeat)
  IN [ticked EXCEPT
        !.countInTicks = Append(@, [time |-> s.countInNextTime,
                                    accent |-> isDownbeat,
                                    beat |-> SecondsPerBeat(s.bpm)]),
        !.countInNextTime = @ + SecondsPerBeat(s.bpm),
        !.countInStep = @ + 1]

RECURSIVE CountInScheduler(_)
CountInScheduler(s) ==
  IF s.countInNextTime < s.audioNow + ScheduleAheadTime
    THEN IF s.countInStep >= 4
           THEN Handoff(s)
           ELSE Then(CountInTick(s), CountInScheduler)
    ELSE LET id == FreshTimer(s)
         IN [SetTimeout(s, "countInScheduler", id) EXCEPT !.countInTimerID = id]

StartCountIn(s) ==
  LET a == EnsureAudioContext(s)
  IN CountInScheduler([a EXCEPT !.isCountingIn = TRUE,
                                !.countInStep = 0,
                                !.countInNextTime = a.audioNow,
                                !.countInTicks = <<>>,
                                !.stopped = FALSE])

StopCountIn(s) ==
  LET reset == [s EXCEPT !.isCountingIn = FALSE, !.countInStep = 0]
  IN IF reset.countInTimerID # Null
       THEN [ClearTimeout(reset, reset.countInTimerID) EXCEPT !.countInTimerID = Null]
       ELSE reset

\* --------------------------------------------------------------- transport

\* A start that does not look at isPlaying.
StartPlayback_Restarts(s) ==
  LET a == EnsureAudioContext(s)
  IN Scheduler([a EXCEPT !.isPlaying = TRUE,
                         !.currentStep = 0,
                         !.nextNoteTime = a.audioNow,
                         !.loopStartTime = a.audioNow,
                         !.stopped = FALSE,
                         !.advances = 0,
                         !.bpmSetAt = 0,
                         !.swingSetAt = 0])

StartPlayback(s) ==
  IF s.isPlaying
    THEN [s EXCEPT !.stopped = FALSE]
    ELSE
      LET a == EnsureAudioContext(s)
      IN Scheduler([a EXCEPT !.isPlaying = TRUE,
                             !.currentStep = 0,
                             !.nextNoteTime = a.audioNow,
                             !.loopStartTime = a.audioNow,
                             !.stopped = FALSE,
                             !.advances = 0,
                             !.bpmSetAt = 0,
                             !.swingSetAt = 0])

\* A stop that leaves isRecording as it is.
StopPlayback_KeepsRecording(s) ==
  LET halted == StopCountIn([s EXCEPT !.isPlaying = FALSE])
      cleared == IF halted.timerID # Null
                   THEN [ClearTimeout(halted, halted.timerID) EXCEPT !.timerID = Null]
                   ELSE halted
  IN [StopCurrent(cleared, Undefined) EXCEPT !.stopped = TRUE]

\* A stop that leaves the sounding voice alone.
StopPlayback_KeepsVoice(s) ==
  LET halted == StopCountIn([s EXCEPT !.isPlaying = FALSE, !.isRecording = FALSE])
      cleared == IF halted.timerID # Null
                   THEN [ClearTimeout(halted, halted.timerID) EXCEPT !.timerID = Null]
                   ELSE halted
  IN [cleared EXCEPT !.stopped = TRUE]

StopPlayback(s) ==
  LET halted == StopCountIn([s EXCEPT !.isPlaying = FALSE, !.isRecording = FALSE])
      cleared == IF halted.timerID # Null
                   THEN [ClearTimeout(halted, halted.timerID) EXCEPT !.timerID = Null]
                   ELSE halted
  IN [StopCurrent(cleared, Undefined) EXCEPT !.stopped = TRUE]

ToggleRecord(s) ==
  IF ~s.isRecording /\ ~s.isCountingIn
    THEN IF s.isPlaying
           THEN [s EXCEPT !.isRecording = TRUE]
           ELSE StartCountIn(s)
    ELSE [(IF s.isCountingIn THEN StopCountIn(s) ELSE s) EXCEPT !.isRecording = FALSE]

\* playBtn click
PlayButton(s) ==
  IF s.isPlaying THEN StartPlayback(StopPlayback(s)) ELSE StartPlayback(s)

\* keydown Space
SpaceKey(s) ==
  IF s.isPlaying THEN StopPlayback(s) ELSE StartPlayback(s)

\* ---------------------------------------------------------------- settings

\* Math.max(60, Math.min(90, Math.round(Number(val) || 70))), val an integer
SetBpm(s, val) ==
  LET clamped == Max(60, Min(90, IF val = 0 THEN 70 ELSE val))
  IN [s EXCEPT !.bpm = clamped,
               !.bpmSetAt = IF clamped # s.bpm THEN s.advances ELSE @]

\* setBpm(bpmInput.value), the field holding the number tenths / 10:
\* Number(val) || 70 replaces a zero, Math.round rounds a half upwards
RoundedBpm(tenths) == IF tenths = 0 THEN 70 ELSE (tenths + 5) \div 10
SetBpmTyped(s, tenths) ==
  LET clamped == Max(60, Min(90, RoundedBpm(tenths)))
  IN [s EXCEPT !.bpm = clamped,
               !.bpmSetAt = IF clamped # s.bpm THEN s.advances ELSE @]

SetQuantizeRes(s, res) == [s EXCEPT !.quantizeRes = res]

SetSwingPosition(s, posIndex) ==
  LET clamped == Max(0, Min(2, posIndex))
  IN [s EXCEPT !.swingPercent = SWING_VALUES[clamped + 1],
               !.swingSetAt = IF SWING_VALUES[clamped + 1] # s.swingPercent
                                THEN s.advances ELSE @]

\* ------------------------------------------------------------------ sample

\* wavesurfer "decode": decodedBuffer is set and autoSlice cuts 16 equal regions
AutoSlice(s) ==
  IF ~s.decodedBuffer THEN s
  ELSE [s EXCEPT !.regions =
          [i \in 0..(NUM_PADS - 1) |->
             [start |-> i * SliceLen, end |-> (i + 1) * SliceLen]]]

Decode(s) == AutoSlice([s EXCEPT !.decodedBuffer = TRUE])

Abs(x) == IF x < 0 THEN -x ELSE x

\* region-updated for slice idx, resized to [start, end]
HandleRegionUpdate(s, idx, start, end) ==
  IF idx \notin DOMAIN s.regions THEN s
  ELSE
    LET own == [s.regions EXCEPT ![idx] = [start |-> start, end |-> end]]
        nxt == IF idx < NUM_PADS - 1 /\ Abs(own[idx + 1].start - end) > RegionEps
                 THEN [own EXCEPT ![idx + 1].start = end]
                 ELSE own
        prv == IF idx > 0 /\ Abs(nxt[idx - 1].end - start) > RegionEps
                 THEN [nxt EXCEPT ![idx - 1].end = start]
                 ELSE nxt
    IN [s EXCEPT !.regions = prv]


\* ----------------------------------------------------------------- actions

\* A callback that is due runs before audio time moves MaxLateQuanta quanta on.
NothingOverdue ==
  /\ \A t \in timers : audioNow + Quantum <= t.due + MaxLateQuanta * Quantum
  /\ \A v \in voices : audioNow + Quantum <= EndTime(v) + MaxLateQuanta * Quantum

\* audioCtx.currentTime moves on (the context exists and runs)
AdvanceTime(horizon) ==
  /\ audioCtx
  /\ audioNow + Quantum <= horizon * Quantum
  /\ NothingOverdue
  /\ Commit("advance", [Cur EXCEPT !.audioNow = @ + Quantum])

\* window.setTimeout(scheduler, lookahead) fires
SchedulerWake ==
  \E t \in timers :
    /\ t.fn = "scheduler"
    /\ audioNow >= t.due
    /\ Commit("scheduler", Scheduler([Cur EXCEPT !.timers = @ \ {t}]))

\* window.setTimeout(countInScheduler, lookahead) fires
CountInWake ==
  \E t \in timers :
    /\ t.fn = "countInScheduler"
    /\ audioNow >= t.due
    /\ Commit("countInScheduler", CountInScheduler([Cur EXCEPT !.timers = @ \ {t}]))

VoiceEnded ==
  \E v \in voices :
    /\ audioNow >= EndTime(v)
    /\ Commit("onended", OnEnded(Cur, v.id))

\* A user input: the handler runs on the state as it is, and is counted.
Input(op, s) == Commit(op, [s EXCEPT !.inputs = @ + 1])

RecClick == Input("toggleRecord", ToggleRecord(Cur))
PlayClick == Input("playButton", PlayButton(Cur))
SpacePress == Input("spaceKey", SpaceKey(Cur))
StopClick == Input("stopPlayback", StopPlayback(Cur))
ClearClick == Input("clearSequence", ClearSequence(Cur))

BpmChange ==
  \E v \in Bpms : v # bpm /\ Input("setBpm", SetBpm(Cur, v))

\* ------------------------------------------------- pads, shift and sample

\* pad mousedown / touchstart, and mouseup / mouseleave / touchend
PadMouseDown ==
  \E i \in PadInputs :
    LET triggered == TriggerPad(Cur, i)
    IN Input("padDown",
             IF triggered.thrown THEN triggered
             ELSE [triggered EXCEPT !.mousePressedPads = SetAdd(@, i)])
PadMouseUp ==
  \E i \in PadInputs :
    /\ InSeq(mousePressedPads, i)
    /\ Input("padUp", [Cur EXCEPT !.mousePressedPads = SetDelete(@, i)])

\* keydown / keyup of Shift
ShiftDown == ~shiftHeld /\ Input("shiftDown", [Cur EXCEPT !.shiftHeld = TRUE])
ShiftUp == shiftHeld /\ Input("shiftUp", [Cur EXCEPT !.shiftHeld = FALSE])

\* click on a swing label, click on the quantize button
SwingChange ==
  \E p \in 0..(Len(SWING_VALUES) - 1) :
    /\ SWING_VALUES[p + 1] # swingPercent
    /\ Input("swingLabel", SetSwingPosition(Cur, p))
QuantizeClick ==
  Input("quantizeClick", SetQuantizeRes(Cur, IF quantizeRes = 32 THEN 16 ELSE 32))

\* wavesurfer "decode": the first sample is decoded and sliced
DecodeDone == ~decodedBuffer /\ Commit("decode", Decode(Cur))

\* region-updated: the start handle of a slice is dragged to a new place, which
\* wavesurfer keeps within 0 <= start <= end
RegionResized ==
  /\ decodedBuffer
  /\ \E idx \in ResizedSlices : \E start \in {0, idx * SliceLen} :
       /\ start # regions[idx].start
       /\ start <= regions[idx].end
       /\ Input("regionUpdated",
                HandleRegionUpdate(Cur, idx, start, regions[idx].end))

\* --------------------------------------------- the transport specification

\* The user has inputs left within the bound n.
Budget(n) == inputs < n

\* The transport with at most n user inputs in a behaviour.
Transport(n) ==
  \/ AdvanceTime(MaxQuanta)
  \/ SchedulerWake
  \/ CountInWake
  \/ Budget(n) /\ RecClick
  \/ Budget(n) /\ PlayClick
  \/ Budget(n) /\ SpacePress
  \/ Budget(n) /\ StopClick
  \/ Budget(n) /\ BpmChange

Next == Transport(MaxInputs)

Spec == Init /\ [][Next]_vars

\* The same transport with one input fewer: a count-in and one more input.
HandoffNext == Transport(MaxHandoffInputs)

HandoffSpec == Init /\ [][HandoffNext]_vars

\* ------------------------------------------------- the voice specification
\* Pads, note repeat and region edits around a running scheduler, over a
\* short stretch of audio time.

VoiceNext ==
  \/ AdvanceTime(MaxVoiceQuanta)
  \/ SchedulerWake
  \/ VoiceEnded
  \/ DecodeDone
  \/ Budget(MaxVoiceInputs) /\ PlayClick
  \/ Budget(MaxVoiceInputs) /\ StopClick
  \/ Budget(MaxVoiceInputs) /\ PadMouseDown
  \/ Budget(MaxVoiceInputs) /\ PadMouseUp
  \/ Budget(MaxVoiceInputs) /\ ShiftDown
  \/ Budget(MaxVoiceInputs) /\ ShiftUp
  \/ Budget(MaxVoiceInputs) /\ RegionResized

VoiceSpec == Init /\ [][VoiceNext]_vars


\* ------------------------------------------------- the clock specification
\* The step clock through two passes of the loop, started by Play with bpm and
\* swing set beforehand.

\* Audio time runs on to the first instant at which the pending scheduler wake
\* is due and the next step lies within the look-ahead; the wake then runs.
\* (The wakes before that instant find the loop condition false and only
\* re-arm the timer.)
StepWake ==
  \E t \in timers :
    /\ t.fn = "scheduler"
    /\ advances < MaxAdvances
    /\ LET now == Max(t.due, nextNoteTime - ScheduleAheadTime + 1)
       IN Commit("scheduler",
                 Scheduler([Cur EXCEPT !.audioNow = Max(@, now),
                                       !.timers = @ \ {t}]))

InWindow == currentStep < ChangeWindow

ClockInit ==
  \E b \in Bpms : \E p \in 0..(Len(SWING_VALUES) - 1) :
    Starts("playButton",
           PlayButton(SetSwingPosition(SetBpm(Constructed, b), p)))

ClockNext ==
  \/ StepWake
  \/ Budget(MaxClockInputs) /\ InWindow /\ BpmChange
  \/ Budget(MaxClockInputs) /\ InWindow /\ SwingChange
  \/ Budget(MaxClockInputs) /\ InWindow /\ QuantizeClick

ClockSpec == ClockInit /\ [][ClockNext]_vars


\* -------------------------------------------------- the wake specification
\* The transport on a fine clock: audio time moves by one timer interval at a
\* time, and every timer callback runs less than scheduleAheadTime after the
\* wake that armed it (intervals of 25, 50 and 75 ms).  The user's inputs
\* arrive on a coarse grid of audio time.

\* The timer armed by the previous wake (at due - lookahead) is not yet
\* scheduleAheadTime old once audio time has moved one interval on.
WakesInTime ==
  \A t \in timers :
    audioNow + Lookahead < (t.due - Lookahead) + ScheduleAheadTime

FineAdvance ==
  /\ audioCtx
  /\ audioNow + Lookahead <= MaxWakeQuanta * Lookahead
  /\ WakesInTime
  /\ Commit("advance", [Cur EXCEPT !.audioNow = @ + Lookahead])

OnGrid == audioNow % InputGrid = 0

\* Started by Record (a count-in) or by Play, with the bpm set beforehand.
WakeInit ==
  \E b \in Bpms : \E rec \in BOOLEAN :
    IF rec
      THEN Starts("toggleRecord", ToggleRecord(SetBpm(Constructed, b)))
      ELSE Starts("playButton", PlayButton(SetBpm(Constructed, b)))

WakeNext ==
  \/ FineAdvance
  \/ SchedulerWake
  \/ CountInWake
  \/ Budget(MaxWakeInputs) /\ OnGrid /\ RecClick
  \/ Budget(MaxWakeInputs) /\ OnGrid /\ PlayClick
  \/ Budget(MaxWakeInputs) /\ OnGrid /\ SpacePress
  \/ Budget(MaxWakeInputs) /\ OnGrid /\ StopClick
  \/ Budget(MaxWakeInputs) /\ OnGrid /\ BpmChange

WakeSpec == WakeInit /\ [][WakeNext]_vars


\* ---------------------------------------------- the quantize specification
\* recordEvent over its range of elapsed loop times: playback and recording
\* are started with the bpm and the quantize resolution set beforehand, by
\* Play and Record or by Record and its count-in; audio time then runs on with
\* the timer callbacks held back, and a pad is struck.

\* Audio time runs on to the first instant at which the pending count-in wake
\* is due and the next tick lies within the look-ahead; the wake then runs.
CountInStepWake ==
  \E t \in timers :
    /\ t.fn = "countInScheduler"
    /\ LET now == Max(t.due, countInNextTime - ScheduleAheadTime + 1)
       IN Commit("countInScheduler",
                 CountInScheduler([Cur EXCEPT !.audioNow = Max(@, now),
                                              !.timers = @ \ {t}]))

NoPadHeld == GetPressedPads(Cur) = <<>>

\* audioCtx.currentTime moves on while the loop records and no callback runs
Elapse ==
  /\ isPlaying /\ isRecording
  /\ NoPadHeld
  /\ audioNow + ElapseQuantum
       <= loopStartTime + GetLoopDuration(bpm) + MaxOverrun * ElapseQuantum
  /\ Commit("advance", [Cur EXCEPT !.audioNow = @ + ElapseQuantum])

QuantizeInit ==
  \E b \in Bpms : \E res \in {16, 32} : \E rec \in BOOLEAN :
    LET loaded == Decode(SetQuantizeRes(SetBpm(Constructed, b), res))
    IN IF rec
         THEN Starts("toggleRecord", ToggleRecord(loaded))
         ELSE Starts("toggleRecord", ToggleRecord(PlayButton(loaded)))

QuantizeNext ==
  \/ CountInStepWake
  \/ Elapse
  \/ Budget(MaxQuantizeInputs) /\ PadMouseDown

QuantizeSpec == QuantizeInit /\ [][QuantizeNext]_vars


\* ------------------------------------------------ the record specification
\* A recording loop with a sample loaded.  Playback and recording are started
\* with the bpm and the quantize resolution set beforehand: by Play and
\* Record, and the loop is followed through its first pass and over the wrap
\* into the second; or by Record and its count-in, and the loop is followed
\* over the hand-off.  The user acts during the count-in and around the wrap:
\* pads, Shift, Record, Stop and Clear.

\* Every voice that has fallen silent has had its onended callback run.
Reaped == \A v \in voices : audioNow < EndTime(v)

\* The boundary of the loop that is followed: the first wrap of a loop started
\* by Play, the hand-off of a loop that was counted in.
Boundary == IF countInTicks = <<>> THEN TOTAL_STEPS ELSE 0

\* The user acts during a count-in and within RecordWindow steps of the
\* boundary.
AroundWrap == isCountingIn \/ advances >= Boundary - RecordWindow

\* audioCtx.currentTime moves on, up to the instant of the next wake of
\* StepWake
TimePasses ==
  /\ isPlaying
  /\ AroundWrap
  /\ \E t \in timers :
       /\ t.fn = "scheduler"
       /\ audioNow + RecordQuantum
            <= Max(t.due, nextNoteTime - ScheduleAheadTime + 1)
  /\ Commit("advance", [Cur EXCEPT !.audioNow = @ + RecordQuantum])

\* The scheduler's wake, up to RecordWindow steps past the boundary.
RecordWake == advances < Boundary + RecordWindow /\ StepWake

RecordInit ==
  \E b \in Bpms : \E res \in {16, 32} : \E rec \in BOOLEAN :
    LET loaded == Decode(SetQuantizeRes(SetBpm(Constructed, b), res))
    IN IF rec
         THEN Starts("toggleRecord", ToggleRecord(loaded))
         ELSE Starts("toggleRecord", ToggleRecord(PlayButton(loaded)))

RecordNext ==
  \/ VoiceEnded
  \/ Reaped /\ RecordWake
  \/ Reaped /\ CountInStepWake
  \/ Reaped /\ TimePasses
  \/ Reaped /\ AroundWrap /\ Budget(MaxRecordInputs) /\ PadMouseDown
  \/ Reaped /\ AroundWrap /\ Budget(MaxRecordInputs) /\ ShiftDown
  \/ Reaped /\ AroundWrap /\ Budget(MaxRecordInputs) /\ RecClick
  \/ Reaped /\ AroundWrap /\ Budget(MaxRecordInputs) /\ StopClick
  \/ Reaped /\ AroundWrap /\ Budget(MaxRecordInputs) /\ ClearClick

RecordSpec == RecordInit /\ [][RecordNext]_vars


\* ------------------------------------------------ the repeat specification
\* Note Repeat over the first steps of a recording loop with a sample loaded:
\* pads held by pointer and by key, Shift, the mode switch, Record and region
\* edits, around the scheduler's wakes.

\* keydown / keyup of a pad key (not an auto-repeat)
PadKeyDown ==
  \E i \in PadInputs :
    /\ decodedBuffer
    /\ LET triggered == TriggerPad(Cur, i)
       IN Input("padKeyDown",
                IF triggered.thrown THEN triggered
                ELSE [triggered EXCEPT !.keyPressedPads = SetAdd(@, i)])
PadKeyUp ==
  \E i \in PadInputs :
    /\ InSeq(keyPressedPads, i)
    /\ Input("padKeyUp", [Cur EXCEPT !.keyPressedPads = SetDelete(@, i)])

\* click on the mode switch
ModeClick ==
  Input("modeSwitch", [EnsureAudioContext(Cur) EXCEPT !.seqMode = ~@])

\* The scheduler's wake, over the first MaxRepeatAdvances steps.
RepeatWake == advances < MaxRepeatAdvances /\ StepWake

RepeatInit ==
  Starts("toggleRecord", ToggleRecord(PlayButton(Decode(Constructed))))

RepeatNext ==
  \/ VoiceEnded
  \/ Reaped /\ RepeatWake
  \/ Budget(MaxRepeatInputs) /\ PadMouseDown
  \/ Budget(MaxRepeatInputs) /\ PadMouseUp
  \/ Budget(MaxRepeatInputs) /\ PadKeyDown
  \/ Budget(MaxRepeatInputs) /\ PadKeyUp
  \/ Budget(MaxRepeatInputs) /\ ShiftDown
  \/ Budget(MaxRepeatInputs) /\ ShiftUp
  \/ Budget(MaxRepeatInputs) /\ ModeClick
  \/ Budget(MaxRepeatInputs) /\ RecClick
  \/ Budget(MaxRepeatInputs) /\ RegionResized

RepeatSpec == RepeatInit /\ [][RepeatNext]_vars


\* ------------------------------------------------- the entry specification
\* The guarded entry points triggerPad, playSlice and startPlayback, called
\* with every kind of argument on the states a short session reaches, with
\* and without a sample: the pads, Record, Play and Stop around the calls.

\* triggerPad(i)
TriggerPadCall ==
  \E i \in PadArgs :
    Input("triggerPad", TriggerPad(Logged(Cur, "call", i, audioNow), i))

\* playSlice(i) and playSlice(i, t)
PlaySliceCall ==
  \E i \in PadArgs : \E d \in AtTimes :
    LET t == IF d = Undefined THEN Undefined ELSE audioNow + d
    IN Input("playSlice", PlaySlice(Logged(Cur, "call", i, audioNow), i, t))

\* startPlayback()
StartPlaybackCall == Input("startPlayback", StartPlayback(Cur))

EntryNext ==
  \/ AdvanceTime(MaxEntryQuanta)
  \/ SchedulerWake
  \/ CountInWake
  \/ VoiceEnded
  \/ DecodeDone
  \/ Budget(MaxEntryInputs) /\ RecClick
  \/ Budget(MaxEntryInputs) /\ PlayClick
  \/ Budget(MaxEntryInputs) /\ StopClick
  \/ Budget(MaxEntryInputs) /\ PadMouseDown
  \/ Budget(MaxEntryInputs) /\ TriggerPadCall
  \/ Budget(MaxEntryInputs) /\ PlaySliceCall
  \/ Budget(MaxEntryInputs) /\ StartPlaybackCall

EntrySpec == Init /\ [][EntryNext]_vars


\* --------------------------------------------------- the bpm specification
\* The three bpm controls: a number typed into the field, and the two buttons.

\* bpmInput change
BpmTyped ==
  \E v \in BpmTenths :
    Input("bpmTyped", SetBpmTyped(Logged(Cur, "typed", v, audioNow), v))
\* bpmDecBtn, bpmIncBtn click
BpmDecClick == Input("bpmDec", SetBpm(Cur, bpm - 1))
BpmIncClick == Input("bpmInc", SetBpm(Cur, bpm + 1))

BpmNext ==
  \/ Budget(MaxBpmInputs) /\ BpmTyped
  \/ Budget(MaxBpmInputs) /\ BpmDecClick
  \/ Budget(MaxBpmInputs) /\ BpmIncClick

BpmSpec == Init /\ [][BpmNext]_vars


\* ------------------------------------------------ the region specification
\* The slices from the decode on, with the handles of two of them dragged.

\* region-updated: the start or the end handle of a slice has been dropped at
\* a new place; wavesurfer keeps the region itself inside the sample and its
\* start no later than its end
RegionDragged ==
  /\ decodedBuffer
  /\ \E idx \in DraggedSlices : \E pos \in HandlePositions :
     \E atStart \in BOOLEAN :
       LET start == IF atStart THEN pos ELSE regions[idx].start
           end == IF atStart THEN regions[idx].end ELSE pos
       IN /\ <<start, end>> # <<regions[idx].start, regions[idx].end>>
          /\ 0 <= start
          /\ start <= end
          /\ end <= NUM_PADS * SliceLen
          /\ Input("regionUpdated", HandleRegionUpdate(Cur, idx, start, end))

RegionNext ==
  \/ DecodeDone
  \/ Budget(MaxRegionInputs) /\ RegionDragged

RegionSpec == Init /\ [][RegionNext]_vars


\* -------------------------------------------------- the drum specification
\* The drum grid beside the pads: steps of the grid toggled, pads struck and
\* Play, from a recording loop with a sample loaded, over the first wakes of
\* the scheduler.

\* click on step col of drum track tr: toggle it, and preview it when it is on
StepClicked(s, st) ==
  LET toggled == [EnsureAudioContext(s) EXCEPT
                    !.drumPattern = IF st \in @ THEN @ \ {st} ELSE @ \cup {st}]
  IN IF st \in toggled.drumPattern
       THEN PlayDrumSound(toggled, st[1], toggled.audioNow)
       ELSE toggled
StepClick ==
  \E st \in DrumSteps : Input("stepClick", StepClicked(Cur, st))

\* A sample is decoded, one step of the grid is turned on, then Play and Record.
DrumInit ==
  \E st \in DrumSteps :
    Starts("toggleRecord",
           ToggleRecord(PlayButton(
             [StepClicked(Decode(Constructed), st) EXCEPT !.log = <<>>])))

DrumNext ==
  \/ AdvanceTime(MaxDrumQuanta)
  \/ SchedulerWake
  \/ VoiceEnded
  \/ Budget(MaxDrumInputs) /\ StepClick
  \/ Budget(MaxDrumInputs) /\ PadMouseDown
  \/ Budget(MaxDrumInputs) /\ PlayClick

DrumSpec == DrumInit /\ [][DrumNext]_vars


\* --------------------------------------------- the drum loop specification
\* The drum grid through two passes of the loop: steps of the grid are turned
\* on, Play is clicked, and the grid is clicked again early in a pass.

\* The state after each step of P has been clicked once.
Patterned(P) ==
  IF P = {} THEN Constructed
  ELSE [EnsureAudioContext(Constructed) EXCEPT !.drumPattern = P]

LoopStepClick ==
  \E st \in LoopSteps : Input("stepClick", StepClicked(Cur, st))

DrumLoopInit ==
  \E b \in Bpms : \E P \in SUBSET LoopSteps :
    Starts("playButton", PlayButton(SetBpm(Patterned(P), b)))

DrumLoopNext ==
  \/ StepWake
  \/ Budget(MaxLoopInputs) /\ InWindow /\ LoopStepClick

DrumLoopSpec == DrumLoopInit /\ [][DrumLoopNext]_vars


\* ------------------------------------------- the specification with no sample
\* No file is ever loaded (decodedBuffer stays null): the pads, Shift, Record,
\* Play and Stop around the count-in and a running scheduler.

BareNext ==
  \/ AdvanceTime(MaxBareQuanta)
  \/ SchedulerWake
  \/ CountInWake
  \/ Budget(MaxBareInputs) /\ PlayClick
  \/ Budget(MaxBareInputs) /\ RecClick
  \/ Budget(MaxBareInputs) /\ StopClick
  \/ Budget(MaxBareInputs) /\ PadMouseDown
  \/ Budget(MaxBareInputs) /\ PadMouseUp
  \/ Budget(MaxBareInputs) /\ ShiftDown
  \/ Budget(MaxBareInputs) /\ ShiftUp

BareSpec == Init /\ [][BareNext]_vars


\* ---------------------------------------- the count-in liveness specification
\* The transport with the count-in's timer served: a pending setTimeout fires
\* and audioCtx.currentTime moves on while the context runs, so the wake of
\* the count-in is taken whenever it stays possible (weak fairness).

CountInLiveNext ==
  \/ CountInStepWake
  \/ advances < MaxLiveAdvances /\ StepWake
  \/ Budget(MaxLiveInputs) /\ RecClick
  \/ Budget(MaxLiveInputs) /\ StopClick
  \/ Budget(MaxLiveInputs) /\ PlayClick
  \/ Budget(MaxLiveInputs) /\ SpacePress
  \/ Budget(MaxLiveInputs) /\ BpmChange

CountInLiveSpec ==
  Init /\ [][CountInLiveNext]_vars /\ WF_vars(CountInStepWake)


\* ------------------------------------------------------ transport: claims

SchedulerTimers == {t \in timers : t.fn = "scheduler"}
CountInTimers == {t \in timers : t.fn = "countInScheduler"}
LogOps == {log[i].op : i \in DOMAIN log}
\* The last handler was a count-in wake that handed off to the main loop.
HandedOff == "handoff" \in LogOps
HandoffAt == CHOOSE i \in DOMAIN log : log[i].op = "handoff"

\* C2: in every reachable state at most one self-rescheduling timer loop is
\* pending: never a count-in timer together with a scheduler timer, never two
\* scheduler timers.
C2_OneLoopPending ==
  /\ ~(SchedulerTimers # {} /\ CountInTimers # {})
  /\ Cardinality(SchedulerTimers) <= 1
  /\ Cardinality(CountInTimers) <= 1

\* C3: after stopPlayback, and until startPlayback or startCountIn is invoked
\* again, no scheduler or count-in timer is pending and no handler dispatches
\* a step or a count-in tick.
C3_StoppedIsQuiet ==
  stopped => (timers = {} /\ log = <<>>)

\* C4 as stated: the handoff sets playing and recording, currentStep = 0 and
\* loopStartTime = nextNoteTime = the scheduled time of the 4th count-in tick.
C4_HandoffAtLastTick ==
  HandedOff =>
    /\ isPlaying /\ isRecording
    /\ Len(countInTicks) = 4
    /\ log[HandoffAt].x = 0
    /\ log[HandoffAt].time = countInTicks[4].time
    /\ loopStartTime = countInTicks[4].time

\* C4 as amended: the handoff sets playing and recording, currentStep = 0 and
\* loopStartTime = nextNoteTime = the time of the 4th count-in tick plus one
\* beat (60/bpm at the bpm in force when that tick was scheduled), and step 0
\* is the first step dispatched, at that time.
C4_HandoffOneBeatAfterLastTick ==
  HandedOff =>
    /\ isPlaying /\ isRecording /\ ~isCountingIn
    /\ Len(countInTicks) = 4
    /\ log[HandoffAt].x = 0
    /\ log[HandoffAt].time = countInTicks[4].time + countInTicks[4].beat
    /\ loopStartTime = log[HandoffAt].time
    /\ HandoffAt < Len(log)
    /\ log[HandoffAt + 1] = Ev("scheduleNote", 0, loopStartTime)

C4_Witness ==
  HandedOff /\ isPlaying /\ isRecording /\ nextNoteTime > loopStartTime

\* C5: a count-in schedules at most 4 metronome ticks (exactly 4 by the
\* handoff), the first at the start time and accented, each next one a beat
\* after the one before and unaccented; and while the engine is counting in
\* no handler dispatches a step, a sample voice or a drum hit.
C5_CountInTicksOnly ==
  /\ Len(countInTicks) <= 4
  /\ HandedOff => Len(countInTicks) = 4
  /\ \A i \in DOMAIN countInTicks :
       /\ countInTicks[i].accent = (i = 1)
       /\ i > 1 => countInTicks[i].time
                     = countInTicks[i - 1].time + countInTicks[i - 1].beat
  /\ (lastOp = "toggleRecord" /\ isCountingIn) => countInTicks[1].time = audioNow
  /\ isCountingIn => LogOps \subseteq {"metronome"}


\* ---------------------------------------------------------- voices: claims

\* For how long two voices sound together.
Overlap(v, w) == Min(EndTime(v), EndTime(w)) - Max(v.start, w.start)

\* C1: at any instant at most one sliced-sample voice is sounding, apart from
\* the 6 ms in which a muted voice fades: no two voices sound together for
\* longer than that, whatever the order of pad triggers and dispatches.
C1_MuteGroup ==
  \A v \in voices : \A w \in voices :
    v # w => Overlap(v, w) <= FadeStop

\* C6: a voice that fails to start during the dispatch of a step does not halt
\* the loop: while playing is true a scheduler wake is pending after every
\* handler.
C6_LoopSurvivesFailure ==
  isPlaying => SchedulerTimers # {}


\* ---------------------------------------------------------- clock: claims

IsNote(e) == e.op = "scheduleNote"
\* The steps the last handler dispatched, in order: [x = step, time].
Notes == SelectSeq(log, IsNote)
LastNote == Notes[Len(Notes)]

\* C7: each step's scheduled time is strictly greater than the previous
\* step's: the steps one handler dispatches have increasing times, and the time
\* nextNote leaves for the coming step is greater than the last dispatched one.
C7_StrictlyIncreasing ==
  /\ \A i \in DOMAIN Notes : \A j \in DOMAIN Notes :
       i < j => Notes[i].time < Notes[j].time
  /\ Notes # <<>> => LastNote.time < nextNoteTime

\* The interval across the wrap, which leaves a swung 16th, at heavy swing and
\* after a bpm change in mid-loop.
C7_Witness ==
  /\ Notes # <<>> /\ LastNote.x = TOTAL_STEPS - 1
  /\ swingPercent = 70 /\ bpm = 90 /\ bpmSetAt > 0

\* C8: currentStep is in [0, 128) in every state, every step passed to
\* scheduleNote is in [0, 128), and the step after 127 is 0.
C8_StepInRange ==
  /\ currentStep \in 0..(TOTAL_STEPS - 1)
  /\ \A i \in DOMAIN Notes :
       /\ Notes[i].x \in 0..(TOTAL_STEPS - 1)
       /\ Notes[i].x = TOTAL_STEPS - 1 =>
            (IF i < Len(Notes) THEN Notes[i + 1].x ELSE currentStep) = 0

C8_Witness ==
  /\ Notes # <<>> /\ LastNote.x = TOTAL_STEPS - 1
  /\ currentStep = 0 /\ advances = 2 * TOTAL_STEPS

\* bpm has not changed since loopStartTime was set (at the start or a wrap).
BpmHeld == bpmSetAt <= advances - currentStep

\* C9: at constant bpm every step that begins an even-indexed 16th is
\* dispatched at exactly loopStartTime + step * thirtySecondDur, whatever the
\* swing setting and whenever it is changed.
C9_StraightStepsOnGrid ==
  \A i \in DOMAIN Notes :
    (BpmHeld /\ Notes[i].x % (2 * STEPS_PER_SIXTEENTH) = 0) =>
      Notes[i].time = loopStartTime + Notes[i].x * ThirtySecondDur(bpm)

\* C10: with bpm and swing held through a pass, the time from one re-pin of
\* loopStartTime to the next is getLoopDuration, at quantize 16 and at 32.
C10_PassLastsLoopDuration ==
  [][(/\ lastOp' = "scheduler"
      /\ currentStep' < currentStep
      /\ advances' - currentStep' >= 2 * TOTAL_STEPS
      /\ bpmSetAt <= advances' - currentStep' - TOTAL_STEPS
      /\ swingSetAt <= advances' - currentStep' - TOTAL_STEPS)
     => loopStartTime' - loopStartTime = GetLoopDuration(bpm)]_vars

\* The second re-pin, after a pass at swing 60 and quantize 16.
C10_Witness ==
  /\ lastOp = "scheduler" /\ currentStep = 0
  /\ advances = 2 * TOTAL_STEPS
  /\ bpmSetAt <= TOTAL_STEPS /\ swingSetAt <= TOTAL_STEPS
  /\ swingPercent = 60 /\ quantizeRes = 16


\* ------------------------------------------------------------ wake: claims

\* The handlers that run the scheduler's loop: a wake, a handoff, a start.
RanScheduler ==
  \/ lastOp = "scheduler"
  \/ HandedOff
  \/ lastOp \in {"playButton", "spaceKey"} /\ isPlaying

\* C11: with every wake of the scheduler and of the count-in loop less than
\* scheduleAheadTime after the wake before it, every run of the scheduler's
\* loop leaves nextNoteTime at least scheduleAheadTime ahead of the audio
\* clock, and no step is dispatched with a time earlier than the audio time of
\* its dispatch.
C11_AheadOfTheClock ==
  /\ (RanScheduler /\ ~thrown) => nextNoteTime >= audioNow + ScheduleAheadTime
  /\ \A i \in DOMAIN log :
       log[i].op = "scheduleNote" => log[i].time >= audioNow

\* After a count-in has handed off, a wake dispatches a step of the recorded
\* loop that is less than two timer intervals ahead: the wake came 75 ms after
\* the one before it, which had dispatched everything up to 100 ms ahead.
C11_Witness ==
  /\ lastOp = "scheduler"
  /\ isRecording /\ Len(countInTicks) = 4 /\ inputs = 0
  /\ \E t \in timers : t.fn = "scheduler" /\ t.due = audioNow + Lookahead
  /\ \E i \in DOMAIN log :
       /\ log[i].op = "scheduleNote"
       /\ log[i].x > 0
       /\ log[i].time < audioNow + 2 * Lookahead


\* -------------------------------------------------------- quantize: claims

Records == {i \in DOMAIN log : log[i].op = "record"}
\* A pad has just been struck while playing and recording, with a sample loaded.
StruckRecording ==
  lastOp = "padDown" /\ isPlaying /\ isRecording /\ decodedBuffer
Elapsed == audioNow - loopStartTime

\* C12: whatever the elapsed loop time, recordEvent writes to the step
\* round(elapsed / thirtySecondDur) mod 128 under the fine resolution and to
\* round(elapsed / thirtySecondDur / 2) * 2 mod 128, an even step, under the
\* coarse one, the modulo taken onto 0..127.
C12_WritesRoundedStepModulo ==
  LET thirtySecondDur == ThirtySecondDur(bpm)
      moduloStep ==
        IF quantizeRes = 16
          THEN (RoundDiv(Elapsed, 2 * thirtySecondDur) * 2) % TOTAL_STEPS
          ELSE RoundDiv(Elapsed, thirtySecondDur) % TOTAL_STEPS
  IN \A i \in Records :
       /\ log[i].x = moduloStep
       /\ quantizeRes = 16 => log[i].x % 2 = 0

\* C14: recordEvent does not fail and writes inside the sequence: a pad struck
\* while playing and recording is written to an index in 0..127, for elapsed
\* times below zero and beyond the loop duration too.
C14_WritesInsideTheSequence ==
  StruckRecording =>
    /\ ~thrown
    /\ Records # {}
    /\ \A i \in Records : log[i].x \in 0..(TOTAL_STEPS - 1)
    /\ DOMAIN sequence = 0..(TOTAL_STEPS - 1)

\* A pad struck more than a 32nd-note before loopStartTime is written, to
\* step 0.
C14_Witness ==
  /\ StruckRecording
  /\ Elapsed < -ThirtySecondDur(bpm)
  /\ \E i \in Records : log[i].x = 0 /\ sequence[0] # Null


\* ---------------------------------------------------------- record: claims

\* C13: once the loop has wrapped and while it plays and records at the bpm it
\* was started with, swing 50 and the fine resolution, a pad struck at audio
\* time t is written to the step whose dispatch time is cyclically nearest to
\* t.  With steps one 32nd-note apart and currentStep due at nextNoteTime,
\* that step is currentStep + round((t - nextNoteTime) / thirtySecondDur),
\* modulo 128.
C13_WritesNearestStep ==
  (StruckRecording /\ quantizeRes = 32 /\ swingPercent = 50
     /\ advances >= TOTAL_STEPS) =>
    \A i \in Records :
      log[i].x = (currentStep
                    + RoundDiv(audioNow - nextNoteTime, ThirtySecondDur(bpm)))
                 % TOTAL_STEPS

Filled == {k \in DOMAIN sequence : sequence[k] # Null}
Plays == {i \in DOMAIN log : log[i].op = "playSlice"}
\* playing, recording, countingIn, currentStep, nextNoteTime, loopStartTime,
\* bpm, swing and the quantize resolution
transport ==
  <<isPlaying, isRecording, isCountingIn, currentStep, nextNoteTime,
    loopStartTime, bpm, swingPercent, quantizeRes>>

\* C15: the sequence has exactly 128 slots, and every slot is empty or holds
\* a slice index in 0..15.
C15_SequenceWellFormed ==
  /\ DOMAIN sequence = 0..(TOTAL_STEPS - 1)
  /\ \A k \in DOMAIN sequence :
       sequence[k] = Null \/ sequence[k] \in 0..(NUM_PADS - 1)

\* A dispatch under Note Repeat has recorded the held pad at its step, in a
\* sequence that holds a manually recorded pad as well.
C15_Witness ==
  /\ lastOp = "scheduler"
  /\ isRecording /\ shiftHeld
  /\ \E i \in DOMAIN log :
       /\ log[i].op = "scheduleNote"
       /\ sequence[log[i].x] \in 0..(NUM_PADS - 1)
       /\ \E k \in Filled : k # log[i].x /\ k \notin {log[j].x : j \in DOMAIN log}

\* C16: a pad trigger changes the sequence only while playing and recording
\* are both true; with either flag false, and during a count-in, it leaves
\* every slot as it was.
C16_TriggerRecordsOnlyWhileRecording ==
  [][(lastOp' = "padDown" /\ (~isPlaying \/ ~isRecording \/ isCountingIn))
       => sequence' = sequence]_vars

\* A pad has been struck and has sounded during a count-in, with nothing
\* written.
C16_Witness ==
  /\ lastOp = "padDown"
  /\ isCountingIn
  /\ Plays # {}
  /\ Records = {}

\* C17: one recordEvent call sets one slot to the triggered slice index,
\* whatever the slot held, and changes no other slot, nor the drum pattern,
\* nor the transport state.
C17_RecordWritesOneSlot ==
  [][(lastOp' = "padDown" /\ Records' # {}) =>
       /\ Cardinality(Records') = 1
       /\ \E i \in Plays' : \E j \in Records' :
            /\ log'[j].x \in DOMAIN sequence
            /\ sequence' = [sequence EXCEPT ![log'[j].x] = log'[i].x]
            /\ sequence'[log'[j].x] = log'[i].x
       /\ drumPattern' = drumPattern
       /\ transport' = transport]_vars

\* In a loop started by Play and Record, pad 1 and then pad 2 have been
\* struck, and the one slot that is filled holds pad 2: the second strike has
\* overwritten the first.
C17_Witness ==
  /\ lastOp = "padDown"
  /\ countInTicks = <<>>
  /\ inputs = 2
  /\ mousePressedPads = <<0, 1>>
  /\ \E j \in Records : Filled = {log[j].x} /\ sequence[log[j].x] = 1

\* C20: clearSequence empties all 128 slots and leaves the drum pattern and
\* the transport state as they were, in whatever state it is invoked.
C20_ClearEmptiesTheSequence ==
  [][lastOp' = "clearSequence" =>
       /\ \A k \in 0..(TOTAL_STEPS - 1) : sequence'[k] = Null
       /\ DOMAIN sequence' = 0..(TOTAL_STEPS - 1)
       /\ drumPattern' = drumPattern
       /\ transport' = transport]_vars

\* In a loop started by Play and Record a pad has been struck, and so
\* recorded, and Clear has then emptied the sequence while the loop records.
C20_Witness ==
  /\ lastOp = "clearSequence"
  /\ countInTicks = <<>>
  /\ isPlaying /\ isRecording
  /\ inputs = 2
  /\ mousePressedPads # <<>>
  /\ Filled = {}


\* ----------------------------------------------------- note repeat: claims

\* C18: when a step is dispatched while Note Repeat is active (Shift held,
\* pad mode) and pads are held, every held pad is triggered through playSlice
\* at the step's scheduled time (observed with a sample loaded), and while
\* recording the step's slot afterwards holds the last held pad and no other
\* slot has changed; when Note Repeat is inactive or no pad is held, a
\* dispatch leaves the sequence as it was.
C18_NoteRepeatDispatch ==
  [][LET pressed == Union(mousePressedPads, keyPressedPads)
         notes == {i \in DOMAIN log' : log'[i].op = "scheduleNote"}
         steps == {log'[i].x : i \in notes}
     IN notes # {} =>
          IF ~seqMode /\ shiftHeld /\ pressed # <<>>
            THEN /\ decodedBuffer =>
                      \A i \in notes : \A k \in 1..Len(pressed) :
                        \E j \in Plays' :
                          /\ j > i
                          /\ \A n \in notes : ~(i < n /\ n < j)
                          /\ log'[j].x = pressed[k]
                          /\ log'[j].time = log'[i].time
                 /\ isRecording' =>
                      sequence' = [k \in DOMAIN sequence |->
                                     IF k \in steps THEN pressed[Len(pressed)]
                                     ELSE sequence[k]]
            ELSE sequence' = sequence]_vars


\* ---------------------------------------------------------- record: toggle

\* C19: toggleRecord invoked while playing and not recording sets recording
\* at once and starts no count-in (countingIn false and no count-in timer
\* afterwards), and leaves playing, currentStep, nextNoteTime and
\* loopStartTime as they were.
C19_OverdubStartsAtOnce ==
  [][(lastOp' = "toggleRecord" /\ isPlaying /\ ~isRecording) =>
       /\ isRecording'
       /\ ~isCountingIn'
       /\ CountInTimers' = {}
       /\ UNCHANGED <<isPlaying, currentStep, nextNoteTime, loopStartTime>>]_vars


\* ---------------------------------------------------------- entry: claims

\* The index the last direct call of triggerPad or playSlice was given.
CalledWith == log[1].x
\* The mute group and the sequence.
heard == <<voices, currentSource, currentGain, activePadIndex, sequence>>

\* C21: triggerPad(i) and playSlice(i, t) with no sample decoded, or with i
\* outside 0..15, change nothing: no voice is started or stopped, the
\* bookkeeping of the active voice and the sequence stay as they were.  The
\* calls are the direct ones and the one a pad's mousedown makes.
C21_SilentNoOp ==
  [][/\ (/\ lastOp' \in {"triggerPad", "playSlice"}
         /\ (~decodedBuffer \/ CalledWith' < 0 \/ CalledWith' >= NUM_PADS))
          => /\ UNCHANGED heard
             /\ UNCHANGED <<audioCtx, timers, isPlaying, isRecording>>
             /\ ~thrown'
             /\ Len(log') = 1
     /\ (lastOp' = "padDown" /\ ~decodedBuffer)
          => UNCHANGED heard /\ ~thrown' /\ log' = <<>>]_vars

\* triggerPad(-1) or triggerPad(16) with a voice sounding, and a call without
\* a sample while the loop records.
C21_Witness ==
  \/ /\ lastOp = "triggerPad"
     /\ CalledWith \notin 0..(NUM_PADS - 1)
     /\ decodedBuffer
     /\ currentSource # Null
  \/ /\ lastOp \in {"triggerPad", "playSlice", "padDown"}
     /\ ~decodedBuffer
     /\ isPlaying
     /\ isRecording

\* C22: startPlayback called while isPlaying is true changes no transport
\* state (currentStep, nextNoteTime, loopStartTime, isRecording, isPlaying)
\* and arms no scheduler timer: the pending timers are the ones there were
\* and nothing is dispatched.
C22_StartWhilePlaying ==
  [][(lastOp' = "startPlayback" /\ isPlaying)
       => /\ UNCHANGED <<currentStep, nextNoteTime, loopStartTime,
                         isRecording, isPlaying>>
          /\ UNCHANGED <<timers, timerID>>
          /\ log' = <<>>]_vars

\* startPlayback called on a recording loop that has moved on from its start.
C22_Witness ==
  /\ lastOp = "startPlayback"
  /\ isPlaying
  /\ isRecording
  /\ advances > 0
  /\ audioNow > loopStartTime
  /\ Cardinality(timers) = 1

\* The loop's position and flags, the count-in, and the mute group.
position == <<isPlaying, isRecording, currentStep, nextNoteTime, loopStartTime,
              timerID>>
countIn == <<isCountingIn, countInStep, countInNextTime, countInTimerID>>
muteGroup == <<currentSource, currentGain, activePadIndex>>

C24_StopClearsHeldState ==
  [][lastOp' = "stopPlayback"
       => /\ mousePressedPads' = <<>>
          /\ keyPressedPads' = <<>>
          /\ ~shiftHeld']_vars


\* ------------------------------------------------------------ bpm: claims

\* The number last typed into the bpm field, in tenths.
Typed == log[1].x

\* C25: after any bpm change bpm is an integer in 60..90, and a number typed
\* into the field is clamped, never replaced: below 60 (zero and negative
\* numbers too) it gives 60, above 90 it gives 90, otherwise it is rounded.
C25_BpmClamped ==
  [][/\ bpm' \in 60..90
     /\ lastOp' = "bpmTyped"
          => bpm' = IF Typed' < 600 THEN 60
                    ELSE IF Typed' > 900 THEN 90
                    ELSE (Typed' + 5) \div 10]_vars


\* ---------------------------------------------------------- clock: claims

\* The state nextNote leaves when it runs now, on the grid res.
NextNoteOn(res) == NextNote([Cur EXCEPT !.quantizeRes = res])

\* C26: the quantize toggle changes quantizeRes and nothing else of the
\* clock: bpm, currentStep, nextNoteTime and loopStartTime stay, and so do
\* swing, the flags, the timers and the sequence; and at every point of the
\* loop nextNote adds the same interval and moves to the same step on the
\* 1/16 grid as on the 1/32 grid, the wrap at 128 included.
C26_QuantizeLeavesTheClock ==
  [][/\ lastOp' = "quantizeClick"
          => /\ quantizeRes' = (IF quantizeRes = 32 THEN 16 ELSE 32)
             /\ UNCHANGED <<bpm, currentStep, nextNoteTime, loopStartTime>>
             /\ UNCHANGED <<swingPercent, isPlaying, isRecording, timers,
                            timerID, sequence, audioNow>>
     /\ NextNoteOn(16).nextNoteTime = NextNoteOn(32).nextNoteTime
     /\ NextNoteOn(16).currentStep = NextNoteOn(32).currentStep
     /\ NextNoteOn(16).loopStartTime = NextNoteOn(32).loopStartTime]_vars

\* The toggle to the 1/16 grid on a swung loop that has begun to advance.
C26_Witness ==
  /\ lastOp = "quantizeClick"
  /\ quantizeRes = 16
  /\ isPlaying
  /\ swingPercent # 50
  /\ advances > 0

\* C27: the onended of a voice clears the bookkeeping of the active voice
\* only if that voice is still the tracked one; the onended of a voice that
\* was force-stopped or superseded leaves currentSource, currentGain and
\* activePadIndex, which belong to a voice started after it, as they are.
C27_OnEndedOfTrackedVoiceOnly ==
  [][lastOp' = "onended"
       => \E v \in voices :
            /\ voices' = voices \ {v}
            /\ IF v.id = currentSource
                 THEN muteGroup' = <<Null, Null, -1>>
                 ELSE /\ UNCHANGED muteGroup
                      /\ v.stopAt # Null]_vars

\* A superseded voice has ended while the voice started after it is tracked
\* and sounding.
C27_Witness ==
  /\ lastOp = "onended"
  /\ currentSource # Null
  /\ activePadIndex \in 0..(NUM_PADS - 1)
  /\ \E v \in voices : v.id = currentSource /\ audioNow < EndTime(v)


\* --------------------------------------------------------- region: claims

\* C28: once the sample is sliced, and after every region update, the 16
\* slices are contiguous and none is inverted: each slice ends where the next
\* one starts, and no slice starts after its end.
C28_SlicesContiguous ==
  decodedBuffer
    => /\ DOMAIN regions = 0..(NUM_PADS - 1)
       /\ \A i \in 0..(NUM_PADS - 2) : regions[i].end = regions[i + 1].start
       /\ \A i \in 0..(NUM_PADS - 1) : regions[i].start <= regions[i].end


\* ----------------------------------------------------------- drum: claims

\* The drum hits and the slices the last handler scheduled.
Drums == {i \in DOMAIN log : log[i].op = "drum"}
Slices == {i \in DOMAIN log : log[i].op = "playSlice"}
\* The state playDrumSound(tr, currentTime) leaves when it runs now.
DrumNow(tr) == PlayDrumSound(Cur, tr, audioNow)

\* C29: a drum hit never stops or replaces a voice.  Wherever playDrumSound
\* runs it schedules its own hit and leaves the voices, with the stops they
\* have, and currentSource, currentGain and activePadIndex as they are.  A
\* click that turns a step on previews it and touches no voice; a dispatch
\* that plays drums and no slice touches no voice; in a dispatch that plays
\* drums and slices the last slice is the tracked voice afterwards.
C29_DrumHitsAreFireAndForget ==
  [][/\ \A tr \in 0..(DRUM_TRACKS - 1) :
          /\ DrumNow(tr).voices = voices
          /\ DrumNow(tr).currentSource = currentSource
          /\ DrumNow(tr).currentGain = currentGain
          /\ DrumNow(tr).activePadIndex = activePadIndex
          /\ DrumNow(tr).log = <<Ev("drum", tr, audioNow)>>
     /\ lastOp' = "stepClick"
          => /\ UNCHANGED <<muteGroup, voices>>
             /\ \E st \in DrumSteps :
                  IF st \in drumPattern
                    THEN drumPattern' = drumPattern \ {st} /\ log' = <<>>
                    ELSE /\ drumPattern' = drumPattern \cup {st}
                         /\ log' = <<Ev("drum", st[1], audioNow)>>
     /\ (lastOp' = "scheduler" /\ Drums' # {} /\ Slices' = {})
          => UNCHANGED <<muteGroup, voices>>
     /\ (lastOp' \in {"scheduler", "playButton"} /\ Drums' # {} /\ Slices' # {})
          => LET last == log'[CHOOSE i \in Slices' : \A j \in Slices' : j <= i]
             IN /\ activePadIndex' = last.x
                /\ \E v \in voices' :
                     /\ v.id = currentSource'
                     /\ v.pad = last.x
                     /\ v.start = last.time
                     /\ v.stopAt = Null]_vars

\* A dispatch has scheduled a drum hit while the voice of a pad is tracked and
\* sounding.
C29_Witness ==
  /\ lastOp = "scheduler"
  /\ Drums # {}
  /\ currentSource # Null
  /\ \E v \in voices :
       /\ v.id = currentSource
       /\ v.start <= audioNow
       /\ audioNow < EndTime(v)


\* --------------------------------------------------- straight clock: claims

\* C30: at swing 50 and constant bpm every interval between consecutive steps
\* is one 32nd note, 60 / bpm / 8: between the steps one wake dispatches, from
\* the last of them to the time nextNote leaves for the coming step, and from
\* the last step of one wake to the first of the next; the interval from step
\* 127 to step 0 is one of them.
C30_StraightStepsAreUniform ==
  [][(lastOp' = "scheduler" /\ swingPercent' = 50)
       => /\ \A i \in 1..(Len(Notes') - 1) :
               /\ Notes'[i + 1].time - Notes'[i].time = ThirtySecondDur(bpm')
               /\ Notes'[i + 1].x = (Notes'[i].x + 1) % TOTAL_STEPS
          /\ Notes' # <<>>
               => /\ nextNoteTime' - LastNote'.time = ThirtySecondDur(bpm')
                  /\ Notes'[1].time = nextNoteTime
          /\ (Notes' # <<>> /\ Notes # <<>> /\ swingPercent = 50 /\ bpm' = bpm)
               => /\ Notes'[1].time - LastNote.time = ThirtySecondDur(bpm)
                  /\ Notes'[1].x = (LastNote.x + 1) % TOTAL_STEPS]_vars

\* Step 0 of the second pass has been dispatched one wake after step 127, on
\* a loop that was set to swing 50 after it had started.
C30_Witness ==
  /\ lastOp = "scheduler"
  /\ swingPercent = 50
  /\ swingSetAt > 0
  /\ Notes # <<>>
  /\ LastNote.x = 0
  /\ advances > TOTAL_STEPS


\* ------------------------------------------------------ drum loop: claims

\* The hits of track tr the last handler scheduled at time.
HitsAt(tr, time) == {j \in Drums : log[j].x = tr /\ log[j].time = time}

\* C31: when step s is dispatched, drum track tr fires, once and at the
\* step's scheduled time, if and only if s is even and column (s mod 32) / 2
\* of the track is on; no hit is scheduled at the time of an odd step or at
\* any other time; the 16 columns are read again in each of the 4 bars.
C31_DrumsFollowTheGrid ==
  lastOp # "stepClick"
    => /\ \A i \in DOMAIN Notes : \A tr \in 0..(DRUM_TRACKS - 1) :
            LET s == Notes[i].x
                fires == /\ s % 2 = 0
                         /\ <<tr, (s % 32) \div 2>> \in drumPattern
            IN Cardinality(HitsAt(tr, Notes[i].time)) = IF fires THEN 1 ELSE 0
       /\ \A j \in Drums :
            \E i \in DOMAIN Notes :
              /\ Notes[i].time = log[j].time
              /\ Notes[i].x % 2 = 0

\* A hit of the last column in the third bar, on a grid that was clicked
\* after the loop had started.
C31_Witness ==
  /\ lastOp = "scheduler"
  /\ inputs = 1
  /\ Notes # <<>>
  /\ LastNote.x = 2 * 32 + 30
  /\ HitsAt(3, LastNote.time) # {}


\* ------------------------------------------------- transport state: claims

\* C32: while the count-in runs the loop neither plays nor records:
\* isCountingIn implies ~isPlaying and ~isRecording in every state, whatever
\* the order of Record, Play, Space and Stop.
C32_CountInExcludesPlaying ==
  isCountingIn => ~isPlaying /\ ~isRecording

\* C33: the engine never records while it is not playing: isRecording
\* implies isPlaying in every state, after toggleRecord, a start, a stop, a
\* handoff of the count-in and a cancelled count-in.
C33_RecordingImpliesPlaying ==
  isRecording => isPlaying

\* The count-in has handed off to a recording loop after another input.
C33_Witness ==
  /\ lastOp = "countInScheduler"
  /\ isRecording
  /\ isPlaying
  /\ ~isCountingIn
  /\ inputs >= 2

\* Under CountInLiveSpec a count-in that has started comes to an end, and
\* while it runs its timer is pending.
CountInEnds == isCountingIn ~> ~isCountingIn
CountInTimerPending == isCountingIn => CountInTimers # {}

\* C34: a count-in that has started never goes on forever; it ends in one of
\* two ways: the handoff, which leaves the loop playing and recording, or a
\* cancellation by toggleRecord or stopPlayback, which leaves the engine not
\* counting in, not playing, not recording and with no count-in timer
\* pending.  A finite run refutes the second half: the step that ends the
\* count-in lands in one of the two states.
C34_CountInEndsInHandoffOrIdle ==
  [][(isCountingIn /\ ~isCountingIn')
       => \/ /\ lastOp' = "countInScheduler"
             /\ isPlaying' /\ isRecording'
          \/ /\ lastOp' \in {"toggleRecord", "stopPlayback", "playButton", "spaceKey"}
             /\ ~isPlaying' /\ ~isRecording'
             /\ countInTimerID' = Null
             /\ CountInTimers' = {}]_vars

\* The steps a handler passes to scheduleNote follow the step before them.
Consecutive(N) ==
  \A i \in 1..(Len(N) - 1) : N[i + 1].x = (N[i].x + 1) % TOTAL_STEPS

\* C35: between a transport start and the next stop the steps passed to
\* scheduleNote are 0, 1, ..., 127, 0, ... in order: the steps of one handler
\* are consecutive modulo 128; the first of them is 0 when the handler starts
\* the transport (it was stopped, or the Play button stops and restarts it)
\* and is the step after the last one dispatched otherwise (the step counter
\* is moved past every step dispatched by a handler that completes, and by
\* nothing else while the transport keeps playing).
C35_StepsConsecutiveFromZero ==
  [][LET N == Notes'
         fresh == ~isPlaying \/ lastOp' = "playButton"
     IN /\ N # <<>> =>
             /\ Consecutive(N)
             /\ N[1].x = (IF fresh THEN 0 ELSE currentStep)
             /\ (isPlaying' /\ ~thrown') =>
                  currentStep' = (N[Len(N)].x + 1) % TOTAL_STEPS
        /\ (N = <<>> /\ isPlaying /\ isPlaying') => currentStep' = currentStep]_vars

\* C36: while no sample is loaded no step of the program changes the
\* sequence: pad presses, Shift, Record, Play, Stop and the dispatches of the
\* scheduler leave every slot as it was.
C36_NoSampleNoSequenceChange ==
  [][~decodedBuffer => sequence' = sequence]_vars

====
